---- MODULE Spec2Model ----
(***************************************************************************)
(* Model of server.js (Express + EJS + SQLite site with sessions and a     *)
(* contact form).  The persistent store is the SQLite file data.db; the    *)
(* process state is the position of the start-up IIFE and the in-memory    *)
(* session store of express-session; every route is one action.            *)
(***************************************************************************)
EXTENDS Integers, Sequences, FiniteSets, TLC

\* ------------------------------------------------------------------ bounds
MaxStarts == 2      \* process starts (node server.js) in one behaviour
MaxSids == 1        \* session identifiers the session middleware hands out
MaxMessages == 2    \* rows in messages

\* cookie.maxAge, 1000 * 60 * 60 ms, in clock ticks of half an hour
TTL == 2

\* ------------------------------------------------------------ value domains
Undefined == "<undefined>"
NoSid == 0
Sids == 1..MaxSids
NoUser == [id |-> 0, name |-> "", username |-> ""]
NoSession == [user |-> NoUser, ttl |-> 0]
NoRow == [id |-> 0, username |-> "", password_hash |-> <<"", "">>, name |-> ""]

TableNames == {"users", "services", "messages"}
\* schema.sql: the CREATE TABLE IF NOT EXISTS statements in file order
SchemaSql == <<"users", "services", "messages">>

Usernames == {"admin", "Admin", "nouser"}
Passwords == {"Admin*1234", "wrong", Undefined}

\* req.body.topics as the body parsers deliver it: absent, one string, a list
TopicInputs ==
  { [t |-> "undefined", str |-> "", arr |-> <<>>],
    [t |-> "string", str |-> "billing, support", arr |-> <<>>],
    [t |-> "array", str |-> "", arr |-> <<>>],
    [t |-> "array", str |-> "", arr |-> <<"billing", "support">>] }
ContactNames == {"Ana", Undefined}

StaticPages == {"/about", "/contact", "/vps", "/dedicados", "/dominios", "/ssl",
                "/backup", "/correo", "/seguridad", "/monitoreo", "/creador"}

\* -------------------------------------------------------------------- state
VARIABLES
  tables,      \* data.db: names of the tables that exist
  users,       \* data.db: rows of users, in insertion order
  services,    \* data.db: rows of services, in insertion order
  messages,    \* data.db: rows of messages, in insertion order
  pc,          \* position of the start-up IIFE; "off": no process
  argvInit,    \* process.argv includes --init
  rowC,        \* seedIfEmpty: row.c
  svcI,        \* seedIfEmpty: index of the for loop over services
  initErr,     \* what the catch of the IIFE logged: "none", "schema", "seed"
  starts,      \* process starts so far
  sessions,    \* express-session MemoryStore: sid -> session; the clock is
               \* kept in ttl, the time left: cookie.expires - Date.now()
  nextSid,     \* the next identifier the middleware generates
  resp,        \* the response on its way to a client: the cookie its request
               \* carried, what is sent, and whether a route handler ran;
               \* NoResp when none is under way
  revoked,     \* history: sids whose session POST /logout destroyed
  age,         \* history: time since a login created the stored session
               \* (measured by TickMeasured only)
  seedRuns,    \* history: invocations of seedIfEmpty that returned normally
  seedBroken   \* history: an invocation of seedIfEmpty threw or was killed

dbVars == <<tables, users, services, messages>>
procVars == <<pc, argvInit, rowC, svcI, initErr, starts>>
sessVars == <<sessions, nextSid, age, revoked>>
seedHist == <<seedRuns, seedBroken>>
vars == <<tables, users, services, messages, pc, argvInit, rowC, svcI,
          initErr, starts, sessions, nextSid, resp, revoked, age,
          seedRuns, seedBroken>>

\* --------------------------------------------------------- storage layer
\* CREATE TABLE IF NOT EXISTS t
CreateTable(ts, t) == ts \cup {t}

\* db.exec(sql): the statements run in order, each committed on its own; the
\* first failing statement ends the batch, so k of them are applied.
Exec(ts, sql, k) == ts \cup {sql[j] : j \in 1..k}

\* SELECT name FROM sqlite_master WHERE type='table' AND name=t
SqliteMaster(t) == t \in tables

\* AUTOINCREMENT: one more than the largest id used (no row is ever deleted)
NextId(rows) == Len(rows) + 1

\* INSERT INTO users: username is UNIQUE
InsertUserOk(username) ==
  /\ "users" \in tables
  /\ \A j \in 1..Len(users) : users[j].username # username

\* SELECT * FROM users WHERE username = ? (BINARY collation: exact match)
SelectUser(username) ==
  IF \E j \in 1..Len(users) : users[j].username = username
  THEN users[CHOOSE j \in 1..Len(users) : users[j].username = username]
  ELSE NoRow

\* bcrypt.hash(s, 10): a digest of s, never s itself
BcryptHash(s) == <<"$2a$10$", s>>
\* bcrypt.compare(s, hash) rejects ("Illegal arguments") unless s is a string
BcryptCompareThrows(s) == s = Undefined
\* a comparison that accepts every string
BcryptCompareAny(s, hash) == TRUE
BcryptCompare(s, hash) == hash = BcryptHash(s)

\* ------------------------------------------------------------------- seed
SeedUser == [username |-> "admin", password |-> "Admin*1234", name |-> "Administrador"]
SeedServices ==
  << [title |-> "Hosting Web Compartido", price |-> "Desde $5.99 Anual"],
     [title |-> "Servidores VPS", price |-> "Desde $8.99 Mensual"],
     [title |-> "Correo Corporativo", price |-> "Incluido 1er ano"] >>

\* a seed that looks at the services for what it should ask of the users
SeedWantedByServices(c) == Len(services) = 0

\* if (row.c === 0)
SeedWanted(c) == c = 0

\* for (const s of services): the loop ends after the last element
SeedLoopEnds(j) == j >= Len(SeedServices)

\* ------------------------------------------------------------ observation
\* no response is on its way to a client
NoResp == [sid |-> NoSid, kind |-> "", arg |-> "", note |-> "", handler |-> FALSE]

NoSessions == [s \in Sids |-> NoSession]

Init ==
  /\ tables = {}
  /\ users = <<>>
  /\ services = <<>>
  /\ messages = <<>>
  /\ pc = "off"
  /\ argvInit = FALSE
  /\ rowC = 0
  /\ svcI = 0
  /\ initErr = "none"
  /\ starts = 0
  /\ sessions = NoSessions
  /\ nextSid = 1
  /\ resp = NoResp
  /\ revoked = {}
  /\ age = [s \in Sids |-> 0]
  /\ seedRuns = 0
  /\ seedBroken = FALSE

\* ------------------------------------------------------ process life cycle
\* node server.js [--init]: the module body runs to its end in one turn of
\* the event loop. The IIFE enters ensureSchema and suspends at its first
\* await; app.listen is then called, so the port is open from here on.
Start ==
  /\ pc = "off"
  /\ starts < MaxStarts
  /\ starts' = starts + 1
  /\ \E a \in BOOLEAN : argvInit' = a
  /\ pc' = "wal"
  /\ rowC' = 0
  /\ svcI' = 0
  /\ initErr' = "none"
  /\ sessions' = NoSessions
  /\ age' = [s \in Sids |-> 0]
  /\ resp' = NoResp
  /\ UNCHANGED <<dbVars, nextSid, revoked, seedHist>>

Listening == pc # "off"

\* A handler answers in the turn of the event loop in which it ends: until the
\* response is out, no other callback of the process runs.
Idle == resp = NoResp
Accepting == Listening /\ Idle

\* The process ends (killed, crashed, host rebooted): data.db stays, the
\* memory of the process is gone.
Kill ==
  /\ pc # "off"
  /\ pc' = "off"
  /\ sessions' = NoSessions
  /\ age' = [s \in Sids |-> 0]
  /\ resp' = NoResp
  /\ seedBroken' = (seedBroken \/ pc = "seedSvc")
  /\ UNCHANGED <<dbVars, argvInit, rowC, svcI, initErr, starts,
                 nextSid, revoked, seedRuns>>

\* catch (e) { console.error(...) }: the error is logged, nothing else
InitCatch(phase) ==
  /\ pc' = "failed"
  /\ initErr' = phase

\* ---------------------------------------------------------- ensureSchema
PragmaWal ==
  /\ pc = "wal"
  /\ \E ok \in BOOLEAN :
       IF ok THEN pc' = "fk" /\ UNCHANGED initErr ELSE InitCatch("schema")
  /\ UNCHANGED <<dbVars, argvInit, rowC, svcI, starts, sessVars,
                 resp, seedHist>>

\* schemaFile: fs.existsSync(schemaPath) and the text read is not blank
PragmaForeignKeys ==
  /\ pc = "fk"
  /\ \E ok \in BOOLEAN, schemaFile \in BOOLEAN :
       IF ok
       THEN pc' = (IF schemaFile THEN "exec" ELSE "needServices") /\ UNCHANGED initErr
       ELSE InitCatch("schema")
  /\ UNCHANGED <<dbVars, argvInit, rowC, svcI, starts, sessVars,
                 resp, seedHist>>

ExecSchema ==
  /\ pc = "exec"
  /\ \E k \in 0..Len(SchemaSql) :
       /\ tables' = Exec(tables, SchemaSql, k)
       /\ IF k = Len(SchemaSql)
          THEN pc' = "needServices" /\ UNCHANGED initErr
          ELSE InitCatch("schema")
  /\ UNCHANGED <<users, services, messages, argvInit, rowC, svcI,
                 starts, sessVars, resp, seedHist>>

\* const needX = await get(sqlite_master ...); if (!needX) ...
NeedTable(at, t, make, after) ==
  /\ pc = at
  /\ \E ok \in BOOLEAN :
       IF ok
       THEN pc' = (IF SqliteMaster(t) THEN after ELSE make) /\ UNCHANGED initErr
       ELSE InitCatch("schema")
  /\ UNCHANGED <<dbVars, argvInit, rowC, svcI, starts, sessVars,
                 resp, seedHist>>

MakeTable(at, t, after) ==
  /\ pc = at
  /\ \E ok \in BOOLEAN :
       IF ok
       THEN tables' = CreateTable(tables, t) /\ pc' = after /\ UNCHANGED initErr
       ELSE UNCHANGED tables /\ InitCatch("schema")
  /\ UNCHANGED <<users, services, messages, argvInit, rowC, svcI,
                 starts, sessVars, resp, seedHist>>

NeedServices == NeedTable("needServices", "services", "mkServices", "needUsers")
MakeServices == MakeTable("mkServices", "services", "needUsers")
NeedUsers == NeedTable("needUsers", "users", "mkUsers", "needMessages")
MakeUsers == MakeTable("mkUsers", "users", "needMessages")
NeedMessages == NeedTable("needMessages", "messages", "mkMessages", "seedCount")
MakeMessages == MakeTable("mkMessages", "messages", "seedCount")

ensureSchema ==
  \/ PragmaWal
  \/ PragmaForeignKeys
  \/ ExecSchema
  \/ NeedServices
  \/ MakeServices
  \/ NeedUsers
  \/ MakeUsers
  \/ NeedMessages
  \/ MakeMessages

\* ----------------------------------------------------------- seedIfEmpty
\* seedIfEmpty returned: with --init the process exits, else it serves on
SeedReturns ==
  /\ seedRuns' = seedRuns + 1
  /\ IF argvInit
     THEN pc' = "off" /\ sessions' = NoSessions /\ resp' = NoResp
          /\ age' = [s \in Sids |-> 0]
     ELSE pc' = "ready" /\ UNCHANGED <<sessions, resp, age>>

SeedCount ==
  /\ pc = "seedCount"
  /\ \E ok \in BOOLEAN :
       IF ok /\ "users" \in tables
       THEN /\ rowC' = Len(users)
            /\ UNCHANGED <<initErr, seedBroken>>
            /\ IF SeedWanted(Len(users))
               THEN pc' = "seedUser" /\ UNCHANGED <<seedRuns, sessions, resp, age>>
               ELSE SeedReturns
       ELSE /\ InitCatch("seed")
            /\ UNCHANGED <<rowC, seedHist, sessions, resp, age>>
  /\ UNCHANGED <<dbVars, argvInit, svcI, starts, nextSid, revoked>>

SeedInsertUser ==
  /\ pc = "seedUser"
  /\ \E ok \in BOOLEAN :
       IF ok /\ InsertUserOk(SeedUser.username)
       THEN /\ users' = Append(users, [id |-> NextId(users),
                                       username |-> SeedUser.username,
                                       password_hash |-> BcryptHash(SeedUser.password),
                                       name |-> SeedUser.name])
            /\ svcI' = 1
            /\ pc' = "seedSvc"
            /\ UNCHANGED initErr
       ELSE /\ InitCatch("seed")
            /\ UNCHANGED <<users, svcI>>
  /\ UNCHANGED <<tables, services, messages, argvInit, rowC,
                 starts, sessVars, resp, seedHist>>

SeedInsertService ==
  /\ pc = "seedSvc"
  /\ \E ok \in BOOLEAN :
       IF ok /\ "services" \in tables
       THEN /\ services' = Append(services, [id |-> NextId(services),
                                             title |-> SeedServices[svcI].title,
                                             price |-> SeedServices[svcI].price])
            /\ svcI' = svcI + 1
            /\ UNCHANGED <<initErr, seedBroken>>
            /\ IF SeedLoopEnds(svcI)
               THEN SeedReturns
               ELSE UNCHANGED <<pc, seedRuns, sessions, resp, age>>
       ELSE /\ InitCatch("seed")
            /\ seedBroken' = TRUE
            /\ UNCHANGED <<services, svcI, seedRuns, sessions, resp, age>>
  /\ UNCHANGED <<tables, users, messages, argvInit, rowC, starts,
                 nextSid, revoked>>

seedIfEmpty ==
  \/ SeedCount
  \/ SeedInsertUser
  \/ SeedInsertService

\* ------------------------------------------------------ session middleware
\* MemoryStore.get: a stored session whose cookie.expires <= Date.now() is gone
Live(sid) ==
  /\ sid \in Sids
  /\ sessions[sid] # NoSession
  /\ sessions[sid].ttl > 0

\* req.session.user as the handlers see it for a request carrying cookie sid;
\* without a live session the middleware generates a new, empty one
SessionUser(sid) == IF Live(sid) THEN sessions[sid].user ELSE NoUser

\* MemoryStore.get deletes the expired session it finds
Purged(sid) ==
  IF sid \in Sids /\ ~Live(sid) THEN [sessions EXCEPT ![sid] = NoSession] ELSE sessions

\* req.session.touch() then store.touch(): cookie.expires = Date.now() + maxAge
TouchedTtl(ttl) == TTL

\* end of a response whose handler left the session as it was: a loaded session
\* is touched (resave: false); a new one is not stored (saveUninitialized: false)
Touched(sid) ==
  IF Live(sid)
  THEN [sessions EXCEPT ![sid].ttl = TouchedTtl(sessions[sid].ttl)]
  ELSE Purged(sid)

\* a logout that leaves the session in the store
StoreDestroyKeeps(store, sid) == store

\* store.destroy(req.sessionID)
StoreDestroy(store, sid) == [store EXCEPT ![sid] = NoSession]

\* req.session.destroy(): the session of the request is removed from the store
Destroyed(sid) == IF sid \in Sids THEN StoreDestroy(sessions, sid) ELSE sessions

\* the age of a session is kept while the store holds it
Aged(store) == [s \in Sids |-> IF store[s] = NoSession THEN 0 ELSE age[s]]

\* a gate that looks at the cookie and not at the session it stands for
requireAuthByCookie(sid) == sid # NoSid

\* function requireAuth(req, res, next)
requireAuth(sid) == SessionUser(sid) # NoUser

\* res.redirect(arg) | res.render(arg, {note}) | res.status(500).send(arg)
Respond(sid, kind, arg, note, handler) ==
  resp' = [sid |-> sid, kind |-> kind, arg |-> arg, note |-> note, handler |-> handler]

\* return res.redirect('/login') of requireAuth: next() is not called
Gate(sid) == Respond(sid, "redirect", "/login", "", FALSE)

\* a request whose handler leaves the session and the store as they are
ReadOnly(sid) ==
  /\ sessions' = Touched(sid)
  /\ age' = Aged(Touched(sid))
  /\ UNCHANGED <<dbVars, procVars, nextSid, revoked, seedHist>>

\* ------------------------------------------------------------ public routes
\* app.get('/')
GetRoot(sid) ==
  /\ Accepting
  /\ Respond(sid, "redirect", "/login", "", TRUE)
  /\ ReadOnly(sid)

\* app.get('/login')
GetLogin(sid) ==
  /\ Accepting
  /\ IF SessionUser(sid) # NoUser
     THEN Respond(sid, "redirect", "/dashboard", "", TRUE)
     ELSE Respond(sid, "render", "login", "null", TRUE)
  /\ ReadOnly(sid)

MsgInvalid == "Usuario o contrasena invalidos"
MsgInternal == "Error interno. Intenta de nuevo."

\* The body of app.post('/login'): what it answers and the identity it puts in
\* the session, for a lookup that succeeds (ok) or is rejected by the store.
LoginResult(username, password, ok) ==
  LET user == SelectUser(username)
      invalid == [kind |-> "render", arg |-> "login", note |-> MsgInvalid, user |-> NoUser]
      internal == [kind |-> "render", arg |-> "login", note |-> MsgInternal, user |-> NoUser]
  IN  IF ~(ok /\ "users" \in tables) THEN internal
      ELSE IF user = NoRow THEN invalid
      ELSE IF BcryptCompareThrows(password) THEN internal
      ELSE IF ~BcryptCompare(password, user.password_hash) THEN invalid
      ELSE [kind |-> "redirect", arg |-> "/dashboard", note |-> "",
            user |-> [id |-> user.id, name |-> user.name, username |-> user.username]]

\* app.post('/login'). A session that the handler changed is saved at the end
\* of the response: a loaded one under its sid, a new one under a fresh sid.
PostLogin(sid, username, password, ok) ==
  LET r == LoginResult(username, password, ok) IN
  /\ Accepting
  /\ Respond(sid, r.kind, r.arg, r.note, TRUE)
  /\ IF r.user = NoUser
     THEN /\ sessions' = Touched(sid)
          /\ age' = Aged(Touched(sid))
          /\ UNCHANGED nextSid
     ELSE IF Live(sid)
     THEN /\ sessions' = [sessions EXCEPT ![sid] = [user |-> r.user, ttl |-> TTL]]
          /\ UNCHANGED <<nextSid, age>>
     ELSE /\ nextSid <= MaxSids
          /\ sessions' = [Purged(sid) EXCEPT ![nextSid] = [user |-> r.user, ttl |-> TTL]]
          /\ age' = [Aged(Purged(sid)) EXCEPT ![nextSid] = 0]
          /\ nextSid' = nextSid + 1
  /\ UNCHANGED <<dbVars, procVars, revoked, seedHist>>

\* app.post('/logout') (no requireAuth in front of it)
PostLogout(sid) ==
  /\ Accepting
  /\ Respond(sid, "redirect", "/login", "", TRUE)
  /\ sessions' = Destroyed(sid)
  /\ age' = Aged(Destroyed(sid))
  /\ revoked' = (IF Live(sid) THEN revoked \cup {sid} ELSE revoked)
  /\ UNCHANGED <<dbVars, procVars, nextSid, seedHist>>

\* ----------------------------------------------------------- private routes
\* app.get('/dashboard', requireAuth, ...): all('SELECT * FROM services')
GetDashboard(sid, ok) ==
  /\ Accepting
  /\ IF ~requireAuth(sid) THEN Gate(sid)
     ELSE IF ok /\ "services" \in tables
     THEN Respond(sid, "render", "dashboard", "services", TRUE)
     ELSE Respond(sid, "send500", "Error cargando dashboard", "", TRUE)
  /\ ReadOnly(sid)

\* app.get('/hosting', requireAuth, ...): get(... WHERE title = ?)
GetHosting(sid, ok) ==
  /\ Accepting
  /\ IF ~requireAuth(sid) THEN Gate(sid)
     ELSE IF ok /\ "services" \in tables
     THEN Respond(sid, "render", "hosting",
                  IF \E j \in 1..Len(services) : services[j].title = SeedServices[1].title
                  THEN "hosting" ELSE "undefined", TRUE)
     ELSE Respond(sid, "send500", "Error cargando hosting", "", TRUE)
  /\ ReadOnly(sid)

\* res.render of the pages that read nothing: 'about', 'contact', 'services/x'
Template(page) ==
  IF page = "/about" THEN "about"
  ELSE IF page = "/contact" THEN "contact"
  ELSE "services" \o page

\* app.get('/about' | '/contact' | '/vps' | ... | '/creador', requireAuth, ...)
GetPage(sid, page) ==
  /\ Accepting
  /\ IF ~requireAuth(sid) THEN Gate(sid)
     ELSE Respond(sid, "render", Template(page), "null", TRUE)
  /\ ReadOnly(sid)

\* Array.prototype.join(sep)
RECURSIVE Join(_, _)
Join(a, sep) ==
  IF Len(a) = 0 THEN ""
  ELSE IF Len(a) = 1 THEN a[1]
  ELSE a[1] \o sep \o Join(Tail(a), sep)

\* topics.join(): the default separator of join is ","
TopicsStrDefaultSep(topics) ==
  IF topics.t = "undefined" THEN Join(<<>>, ",")
  ELSE IF topics.t = "array" THEN Join(topics.arr, ",")
  ELSE topics.str

\* const { topics = [] } = req.body;
\* Array.isArray(topics) ? topics.join(', ') : String(topics || '')
TopicsStr(topics) ==
  IF topics.t = "undefined" THEN Join(<<>>, ", ")
  ELSE IF topics.t = "array" THEN Join(topics.arr, ", ")
  ELSE topics.str

MsgSent == "Mensaje enviado correctamente."
MsgNotSent == "No se pudo enviar. Intenta nuevamente."
ContactEmail == "ana@example.org"
ContactMessage == "Hola"

\* INSERT INTO messages: name, email, message and topics are NOT NULL
InsertMessageOk(name, ok) == ok /\ "messages" \in tables /\ name # Undefined

\* INSERT INTO messages (name, email, message, topics) VALUES (?, ?, ?, ?)
InsertMessage(rows, name, topicsStr) ==
  Append(rows, [id |-> NextId(rows), name |-> name, email |-> ContactEmail,
                message |-> ContactMessage, topics |-> topicsStr])

\* app.post('/contact', requireAuth, ...)
PostContact(sid, name, topics, ok) ==
  /\ Accepting
  /\ Len(messages) < MaxMessages
  /\ IF ~requireAuth(sid)
     THEN Gate(sid) /\ UNCHANGED messages
     ELSE IF InsertMessageOk(name, ok)
     THEN /\ messages' = InsertMessage(messages, name, TopicsStr(topics))
          /\ Respond(sid, "render", "contact", MsgSent, TRUE)
     ELSE /\ UNCHANGED messages
          /\ Respond(sid, "render", "contact", MsgNotSent, TRUE)
  /\ sessions' = Touched(sid)
  /\ age' = Aged(Touched(sid))
  /\ UNCHANGED <<tables, users, services, procVars, nextSid, revoked, seedHist>>

\* ------------------------------------------------------------------- clock
\* Time passes: every stored session has one tick less to live
Elapsed(store) ==
  [s \in Sids |-> IF store[s] # NoSession /\ store[s].ttl > 0
                  THEN [store[s] EXCEPT !.ttl = @ - 1] ELSE store[s]]

Tick ==
  /\ \E s \in Sids : Live(s)
  /\ sessions' = Elapsed(sessions)
  /\ UNCHANGED <<dbVars, procVars, nextSid, resp, revoked, age, seedHist>>

\* The same step of the clock, with the age of every stored session measured
\* (up to TTL + 1: all that is asked of an age is whether it is past TTL)
TickMeasured ==
  /\ \E s \in Sids : sessions[s] # NoSession /\ age[s] <= TTL
  /\ sessions' = Elapsed(sessions)
  /\ age' = [s \in Sids |->
        IF sessions[s] # NoSession /\ age[s] <= TTL THEN age[s] + 1 ELSE age[s]]
  /\ UNCHANGED <<dbVars, procVars, nextSid, resp, revoked, seedHist>>

\* the response reaches the client
Deliver ==
  /\ resp # NoResp
  /\ resp' = NoResp
  /\ UNCHANGED <<dbVars, procVars, sessVars, seedHist>>

Cookies == Sids \cup {NoSid}

Protected(sid) ==
  \/ \E ok \in BOOLEAN : GetDashboard(sid, ok)
  \/ \E ok \in BOOLEAN : GetHosting(sid, ok)
  \/ \E page \in StaticPages : GetPage(sid, page)
  \/ \E name \in ContactNames, topics \in TopicInputs, ok \in BOOLEAN :
       PostContact(sid, name, topics, ok)

Public(sid) ==
  \/ GetRoot(sid)
  \/ GetLogin(sid)
  \/ \E username \in Usernames, password \in Passwords, ok \in BOOLEAN :
       PostLogin(sid, username, password, ok)
  \/ PostLogout(sid)

Request == \E sid \in Cookies : Public(sid) \/ Protected(sid)

NextBoot ==
  \/ Start
  \/ Kill
  \/ ensureSchema
  \/ seedIfEmpty

\* node server.js [--init] has just been started on a new data.db
InitUp ==
  /\ tables = {}
  /\ users = <<>>
  /\ services = <<>>
  /\ messages = <<>>
  /\ pc = "wal"
  /\ argvInit \in BOOLEAN
  /\ rowC = 0
  /\ svcI = 0
  /\ initErr = "none"
  /\ starts = 1
  /\ sessions = NoSessions
  /\ nextSid = 1
  /\ resp = NoResp
  /\ revoked = {}
  /\ age = [s \in Sids |-> 0]
  /\ seedRuns = 0
  /\ seedBroken = FALSE

Next ==
  \/ Idle /\ ensureSchema
  \/ Idle /\ seedIfEmpty
  \/ Request
  \/ Deliver
  \/ Idle /\ Tick

NextTtl ==
  \/ Idle /\ ensureSchema
  \/ Idle /\ seedIfEmpty
  \/ Request
  \/ Deliver
  \/ Idle /\ TickMeasured

\* One run of the server process and its clients
Spec == InitUp /\ [][Next]_vars

\* The same, with the age of the sessions measured
SpecTtl == InitUp /\ [][NextTtl]_vars

\* Starts and restarts of the process over one data.db, with no client
SpecBoot == Init /\ [][NextBoot]_vars

\* ================================================================= claims
\* a request is answered in this step
Served == resp = NoResp /\ resp' # NoResp

\* a request that carried cookie sid is answered in this step
ServedTo(sid) == Served /\ resp'.sid = sid

\* the answer of requireAuth to the client that sent cookie sid
GateResp(sid) ==
  [sid |-> sid, kind |-> "redirect", arg |-> "/login", note |-> "", handler |-> FALSE]

\* C1. Auth gate: a request to a protected route whose session carries no
\* identity is answered with a redirect to /login; no route handler runs for
\* it, nothing is rendered and the store is left as it was.
C1_AuthGate ==
  [][\A sid \in Cookies :
       (ServedTo(sid) /\ SessionUser(sid) = NoUser /\ Protected(sid))
         => (resp' = GateResp(sid) /\ UNCHANGED dbVars)]_vars

\* an anonymous request was turned away while another client is logged in
C1_Witness ==
  /\ resp = GateResp(NoSid)
  /\ \E s \in Sids : sessions[s].user # NoUser

\* C3. Logout invalidates the token: once POST /logout has destroyed the
\* session of a token, every later request to a protected route that carries
\* this token is redirected to /login. (A later login is given a new token:
\* the old one stays invalid for good, which is more than the claim asks.)
C3_LogoutInvalidates ==
  [][\A sid \in revoked :
       (ServedTo(sid) /\ Protected(sid)) => resp' = GateResp(sid)]_vars

\* a token was logged out and a request that still carries it was turned away
C3_Witness ==
  \E sid \in revoked : sessions[sid] = NoSession /\ resp = GateResp(sid)

\* the topics of a list in their order, ", " between two of them
JoinedInOrder(a) ==
  LET f[i \in 0..Len(a)] ==
        IF i = 0 THEN ""
        ELSE IF i = 1 THEN a[1]
        ELSE f[i - 1] \o ", " \o a[i]
  IN  f[Len(a)]

\* C9. Contact submission: an authenticated POST /contact that succeeds adds
\* exactly one row to messages and changes no other row; its topics are the
\* topics of the list in order, joined with ", " (["billing","support"] gives
\* "billing, support"), and "" when none was selected. When the store rejects
\* the insert no row is added and the form is rendered with the failure notice.
C9_ContactSubmission ==
  [][\A sid \in Cookies, name \in ContactNames, topics \in TopicInputs, ok \in BOOLEAN :
       (ServedTo(sid) /\ SessionUser(sid) # NoUser /\ PostContact(sid, name, topics, ok))
         => /\ resp'.kind = "render" /\ resp'.arg = "contact"
            /\ resp'.note \in {MsgSent, MsgNotSent}
            /\ UNCHANGED <<tables, users, services>>
            /\ ~ok => resp'.note = MsgNotSent
            /\ resp'.note = MsgNotSent => messages' = messages
            /\ resp'.note = MsgSent =>
                 /\ Len(messages') = Len(messages) + 1
                 /\ SubSeq(messages', 1, Len(messages)) = messages
                 /\ messages'[Len(messages')].name = name
                 /\ topics.t = "array" =>
                      messages'[Len(messages')].topics = JoinedInOrder(topics.arr)
                 /\ topics.t = "undefined" => messages'[Len(messages')].topics = ""
                 /\ topics.arr = <<"billing", "support">> =>
                      messages'[Len(messages')].topics = "billing, support"]_vars

\* a submission without topics, then one with the list billing, support
C9_Witness ==
  /\ Len(messages) = 2
  /\ messages[1].topics = ""
  /\ messages[2].topics = "billing, support"
  /\ resp.note = MsgSent

\* a users row has exactly this username and its hash is that of the password
Matches(username, password) ==
  \E j \in 1..Len(users) :
    /\ users[j].username = username
    /\ password # Undefined
    /\ users[j].password_hash = BcryptHash(password)

\* {id, username, name} of the users row of a username
IdentityOf(username) ==
  LET row == users[CHOOSE j \in 1..Len(users) : users[j].username = username]
  IN  [id |-> row.id, name |-> row.name, username |-> row.username]

\* the identity in the session of the request of this step, once it is answered
AfterUser(sid) ==
  IF Live(sid) THEN sessions'[sid].user
  ELSE IF nextSid' # nextSid THEN sessions'[nextSid].user
  ELSE NoUser

\* a session that carried no identity carries one after this step only through
\* a POST /login whose credentials a users row matches
OnlyLoginAuthenticates ==
  \A s \in Sids :
    (sessions[s].user = NoUser /\ sessions'[s].user # NoUser)
      => /\ Served
         /\ \E username \in Usernames, password \in Passwords :
              /\ Matches(username, password)
              /\ sessions'[s].user = IdentityOf(username)
              /\ PostLogin(resp'.sid, username, password, TRUE)

\* C4 as claimed. Login state machine: POST /login moves an anonymous session
\* to authenticated if and only if a users row has exactly that username and
\* the password matches its hash; then the identity is {id, username, name} of
\* the row and the answer a redirect to /dashboard; otherwise the session stays
\* anonymous. A session gets an identity in no other way.
C4_LoginIffCredentials ==
  [][/\ \A sid \in Cookies, username \in Usernames, password \in Passwords, ok \in BOOLEAN :
          (ServedTo(sid) /\ SessionUser(sid) = NoUser
             /\ PostLogin(sid, username, password, ok))
            => /\ AfterUser(sid) # NoUser <=> Matches(username, password)
               /\ Matches(username, password) =>
                    /\ AfterUser(sid) = IdentityOf(username)
                    /\ resp'.kind = "redirect" /\ resp'.arg = "/dashboard"
               /\ ~Matches(username, password) => AfterUser(sid) = NoUser
     /\ OnlyLoginAuthenticates]_vars

\* C4 as amended: the same, if and only if moreover the lookup of the user is
\* not rejected by the store (ok); when it is, the session stays anonymous.
C4_LoginIffCredentialsAndLookup ==
  [][/\ \A sid \in Cookies, username \in Usernames, password \in Passwords, ok \in BOOLEAN :
          (ServedTo(sid) /\ SessionUser(sid) = NoUser
             /\ PostLogin(sid, username, password, ok))
            => /\ AfterUser(sid) # NoUser <=> (ok /\ Matches(username, password))
               /\ (ok /\ Matches(username, password)) =>
                    /\ AfterUser(sid) = IdentityOf(username)
                    /\ resp'.kind = "redirect" /\ resp'.arg = "/dashboard"
               /\ ~(ok /\ Matches(username, password)) =>
                    /\ AfterUser(sid) = NoUser
                    /\ resp'.kind = "render" /\ resp'.arg = "login"
     /\ OnlyLoginAuthenticates]_vars

\* a client without a cookie logged in as admin and is sent to the dashboard
C4_Witness ==
  /\ resp.sid = NoSid
  /\ resp.kind = "redirect" /\ resp.arg = "/dashboard"
  /\ \E s \in Sids : sessions[s].user.username = "admin" /\ sessions[s].ttl = TTL

\* C5 as claimed. Login failures are indistinguishable: from one state of the
\* store, a login with a username that does not exist and a login with one
\* that exists and a wrong password get the same answer and leave the same
\* session state.
C5_FailuresIndistinguishable ==
  \A u1 \in Usernames, u2 \in Usernames, p1 \in Passwords, p2 \in Passwords, ok \in BOOLEAN :
    (SelectUser(u1) = NoRow /\ SelectUser(u2) # NoRow /\ ~Matches(u2, p2))
      => LoginResult(u1, p1, ok) = LoginResult(u2, p2, ok)

\* C2 as claimed. Start-up ordering: ensureSchema and seedIfEmpty have both
\* completed before any route handler runs.
C2_InitBeforeRequests ==
  [][(Served /\ resp'.handler) => pc = "ready"]_vars

\* C7 as claimed. A failure of a storage call in ensureSchema ends the
\* process: no request is answered after it.
C7_SchemaFailureFatal ==
  [][Served => ~(pc = "failed" /\ initErr = "schema")]_vars

\* C8 as claimed. Session time-to-live: the session a login created is valid
\* right after its creation, and a request that carries its token later than
\* TTL after the creation is treated as having no identity.
C8_FixedTimeToLive ==
  [][\A sid \in Sids :
       (ServedTo(sid) /\ sessions[sid] # NoSession /\ Protected(sid))
         => /\ age[sid] = 0 => resp'.handler
            /\ age[sid] > TTL => resp' = GateResp(sid)]_vars

\* the three default services, in the order of the seed
SeededServices(rows) ==
  /\ Len(rows) = Len(SeedServices)
  /\ \A j \in 1..Len(rows) : rows[j].title = SeedServices[j].title

\* C6. Seeding is run-once: seedIfEmpty goes on to insert if and only if it
\* counted no user; users and services change only in such an invocation; and
\* after one or more invocations that returned, none having broken off half
\* way, there is exactly the admin user and exactly the three default services.
C6_SeedRunOnce ==
  [][/\ (SeedCount /\ pc' # "failed")
          => (pc' = "seedUser" <=> Len(users) = 0)
     /\ (users' # users \/ services' # services)
          => (pc \in {"seedUser", "seedSvc"} /\ rowC = 0)
     /\ (pc = "seedCount" /\ Len(users) > 0) => UNCHANGED dbVars
     /\ (seedRuns' >= 1 /\ ~seedBroken')
          => /\ Len(users') = 1
             /\ users'[1].username = SeedUser.username
             /\ SeededServices(services')]_vars

\* the seed ran to its end in two runs of the process
C6_Witness ==
  /\ seedRuns = 2
  /\ ~seedBroken
  /\ starts = 2
  /\ Len(users) = 1
  /\ SeededServices(services)

\* C10 as claimed. Seed atomicity: whatever starts, failures and restarts
\* there were, a process that has come through its start-up finds the store
\* unseeded or fully seeded: with the admin user, the three default services.
C10_SeedAtomic ==
  (pc = "ready" /\ Len(users) > 0) => SeededServices(services)

====
